---- MODULE Spec2Model ----
(***************************************************************************)
(* Installation state store (utils/state_manager.py) and the component     *)
(* installers that write into it (modules/*.py, setup_manager.py).         *)
(*                                                                         *)
(* A JSON value held in self.state or stored in the state file is a record *)
(*   [kind, version, created_at, last_updated, components]                 *)
(* kind = "doc"     a dict whose "components" is a dict                    *)
(*        "nocomp"  a dict without a "components" key                      *)
(*        "badcomp" a dict whose "components" is not a dict (a list)       *)
(*        "nondict" a JSON value that is not a dict (list, null, number)   *)
(* components is the dict in insertion order: a sequence of                *)
(* [name, rec], rec a function from keys to values.                        *)
(* The state file is [kind, val]: kind = "absent", "json" (val is the      *)
(* parsed content), "text" (not parseable), "empty" (truncated by          *)
(* open(...,'w')), "partial" (a write that stopped half way).              *)
(***************************************************************************)
EXTENDS Integers, Sequences, FiniteSets, TLC

VARIABLES
    state,    \* StateManager.state, the in-memory document
    file,     \* content of DEFAULTS['state_file'] on disk
    dir,      \* DEFAULTS['install_dir'] exists (it is the state file's directory)
    stacks,   \* stacks deployed in the swarm (docker stack deploy / rm)
    clock,    \* datetime.now()
    pc,       \* "running" (at the menu), "quick" or "reset" (inside the loop of
              \* handle_quick_start / handle_reset), "dead" once the process ended
    pos,      \* index of the loop of handle_quick_start / handle_reset, else 0
    backup,   \* content of the file export_state writes
    last,     \* the last operation: its arguments, inputs and result
    prompt    \* a call of get_valid_input: its arguments, the lines the operator
              \* types and its result

vars == <<state, file, dir, stacks, clock, pc, pos, backup, last, prompt>>

\* The clock advances with every operation; an operation is started from the
\* menu while it is below MaxClock (the loop of a bulk operation, once begun,
\* runs on).
MaxClock == 3

----------------------------------------------------------------------------
(* Components and their declared dependencies *)

Prereq == "prerequisites"

\* setup_manager.py handle_quick_start: steps
Components == <<"prerequisites", "traefik", "portainer", "pgvector", "evolution", "chatwoot">>

ComponentNames == {Components[i] : i \in DOMAIN Components}

StackNames == ComponentNames \ {Prereq}

\* self.dependencies of each module
Dependencies(c) ==
    CASE c = "prerequisites" -> <<>>
      [] c = "traefik"       -> <<"prerequisites">>
      [] c = "portainer"     -> <<"prerequisites", "traefik">>
      [] c = "pgvector"      -> <<"prerequisites">>
      [] c = "evolution"     -> <<"prerequisites", "traefik", "pgvector">>
      [] c = "chatwoot"      -> <<"prerequisites", "traefik", "pgvector">>

\* config/versions.py DEFAULTS['network'], Prerequisites.network_name
DefaultNetwork == "TriskelNET"

----------------------------------------------------------------------------
(* JSON values and files *)

None == [k \in {} |-> TRUE]

IsNone(r) == DOMAIN r = {}

Value(kind, version, created, updated, comps) ==
    [kind |-> kind, version |-> version, created_at |-> created,
     last_updated |-> updated, components |-> comps]

NonDoc(kind) == Value(kind, "none", 0, 0, <<>>)

create_default_state(now) == Value("doc", "1.0", now, now, <<>>)

AbsentFile == [kind |-> "absent", val |-> NonDoc("none")]
EmptyFile == [kind |-> "empty", val |-> NonDoc("none")]
PartialFile == [kind |-> "partial", val |-> NonDoc("none")]
TextFile == [kind |-> "text", val |-> NonDoc("none")]
JsonFile(v) == [kind |-> "json", val |-> v]

\* json.load raises JSONDecodeError on text that is not JSON (an empty or a
\* half-written file included); any value that parses is returned as it is.
load_state(f, now) ==
    IF f.kind = "json" THEN f.val ELSE create_default_state(now)

----------------------------------------------------------------------------
(* The components dict *)

Names(comps) == {comps[i].name : i \in DOMAIN comps}

Index(comps, name) == CHOOSE i \in DOMAIN comps : comps[i].name = name

\* Put that moves a name that is set again to the end of the dict.
PutAtEnd(comps, name, rec) ==
    Append(SelectSeq(comps, LAMBDA e : e.name # name), [name |-> name, rec |-> rec])

Put(comps, name, rec) ==
    IF name \in Names(comps)
    THEN [comps EXCEPT ![Index(comps, name)] = [name |-> name, rec |-> rec]]
    ELSE Append(comps, [name |-> name, rec |-> rec])

\* Del that also takes out the record of every component that declares the
\* name as a dependency.
DelCascade(comps, name) ==
    SelectSeq(comps, LAMBDA e :
        /\ e.name # name
        /\ ~\E i \in DOMAIN Dependencies(e.name) : Dependencies(e.name)[i] = name)

Del(comps, name) ==
    SelectSeq(comps, LAMBDA e : e.name # name)

\* Stamp with the keys merged the other way round: {"installed_at": now,
\* "installed": True, **data}, so that data's own keys win.
StampDataWins(data, now) ==
    [k \in DOMAIN data \cup {"installed_at", "installed"} |->
        IF k \in DOMAIN data THEN data[k]
        ELSE IF k = "installed_at" THEN now
        ELSE TRUE]

\* {**data, "installed_at": now, "installed": True}
Stamp(data, now) ==
    [k \in DOMAIN data \cup {"installed_at", "installed"} |->
        IF k = "installed_at" THEN now
        ELSE IF k = "installed" THEN TRUE
        ELSE data[k]]

SetField(rec, field, value) ==
    [k \in DOMAIN rec \cup {field} |-> IF k = field THEN value ELSE rec[k]]

\* self.state.get("components", {})
ComponentsOf(s) == IF s.kind = "doc" THEN s.components ELSE <<>>

get_component(s, name) ==
    IF name \in Names(ComponentsOf(s))
    THEN ComponentsOf(s)[Index(ComponentsOf(s), name)].rec
    ELSE None

is_installed(s, name) ==
    LET component == get_component(s, name)
    IN  /\ ~IsNone(component)
        /\ IF "installed" \in DOMAIN component THEN component["installed"] ELSE FALSE

get_all_installed(s) ==
    LET comps == SelectSeq(ComponentsOf(s),
                           LAMBDA e : IF "installed" \in DOMAIN e.rec
                                      THEN e.rec["installed"] ELSE FALSE)
    IN  [i \in DOMAIN comps |-> comps[i].name]

get_network_name(s) ==
    LET network == get_component(s, "network")
    IN  IF ~IsNone(network) /\ "name" \in DOMAIN network THEN network["name"] ELSE "None"

get_postgres_password(s) ==
    LET pgvector == get_component(s, "pgvector")
    IN  IF ~IsNone(pgvector) /\ "password" \in DOMAIN pgvector
        THEN pgvector["password"] ELSE "None"

----------------------------------------------------------------------------
(* StateManager: persistence *)

\* What one run of _save_state meets in the file system:
\*   "ok"          the directory is there or is created, the file is written
\*   "mkdir_raise" os.makedirs raises (the directory is missing and cannot be
\*                 created); the call is outside the try block
\*   "open_fail"   open(state_file, 'w') raises; the file is left as it was
\*   "write_fail"  json.dump raises after open truncated the file
SaveOutcomes == {"ok", "mkdir_raise", "open_fail", "write_fail"}

\* The process is interrupted during the save: right after open truncated the
\* file, or while json.dump is writing.
KillOutcomes == {"kill_open", "kill_write"}

\* os.makedirs(..., exist_ok=True) cannot fail on a directory that exists.
SaveFeasible(d, out) == (out = "mkdir_raise") => ~d

Result(s, f, d, ret) == [state |-> s, file |-> f, dir |-> d, ret |-> ret]

\* _save_state that answers True although open() failed.
save_state_lenient(s, f, d, now, out) ==
    LET s1 == [s EXCEPT !.last_updated = now]
    IN  CASE out = "mkdir_raise" -> Result(s1, f, d, "raise")
          [] out = "open_fail"   -> Result(s1, f, TRUE, "True")
          [] out = "write_fail"  -> Result(s1, PartialFile, TRUE, "False")
          [] out = "kill_open"   -> Result(s1, EmptyFile, TRUE, "killed")
          [] out = "kill_write"  -> Result(s1, PartialFile, TRUE, "killed")
          [] out = "ok"          -> Result(s1, JsonFile(s1), TRUE, "True")

save_state(s, f, d, now, out) ==
    LET s1 == [s EXCEPT !.last_updated = now]
    IN  CASE out = "mkdir_raise" -> Result(s1, f, d, "raise")
          [] out = "open_fail"   -> Result(s1, f, TRUE, "False")
          [] out = "write_fail"  -> Result(s1, PartialFile, TRUE, "False")
          [] out = "kill_open"   -> Result(s1, EmptyFile, TRUE, "killed")
          [] out = "kill_write"  -> Result(s1, PartialFile, TRUE, "killed")
          [] out = "ok"          -> Result(s1, JsonFile(s1), TRUE, "True")

\* "components" not in self.state raises TypeError on None and numbers, and
\* self.state["components"] = {} raises it on lists and strings;
\* self.state["components"][name] = ... raises it when components is a list.
set_component(s, f, d, name, data, now, out) ==
    IF s.kind \in {"nondict", "badcomp"}
    THEN Result(s, f, d, "raise")
    ELSE LET s0 == IF s.kind = "nocomp"
                   THEN [s EXCEPT !.kind = "doc", !.components = <<>>]
                   ELSE s
             s1 == [s0 EXCEPT !.components = Put(s0.components, name, Stamp(data, now))]
         IN  save_state(s1, f, d, now, out)

\* remove_component that saves whether or not the name had a record.
remove_component_saving(s, f, d, name, now, out) ==
    IF s.kind = "nondict"
    THEN Result(s, f, d, "raise")
    ELSE save_state([s EXCEPT !.components = Del(ComponentsOf(s), name)], f, d, now, out)

\* self.state.get raises AttributeError when self.state is not a dict.
remove_component(s, f, d, name, now, out) ==
    IF s.kind = "nondict"
    THEN Result(s, f, d, "raise")
    ELSE IF name \in Names(ComponentsOf(s))
         THEN save_state([s EXCEPT !.components = Del(s.components, name)], f, d, now, out)
         ELSE Result(s, f, d, "True")

\* update_component_field that creates the record when it is missing.
update_component_field_upsert(s, f, d, name, field, value, now, out) ==
    IF s.kind = "nondict"
    THEN Result(s, f, d, "raise")
    ELSE LET rec == SetField(get_component(s, name), field, value)
         IN  save_state([s EXCEPT !.components = Put(ComponentsOf(s), name, rec)],
                        f, d, now, out)

update_component_field(s, f, d, name, field, value, now, out) ==
    IF s.kind = "nondict"
    THEN Result(s, f, d, "raise")
    ELSE IF name \in Names(ComponentsOf(s))
         THEN LET i == Index(s.components, name)
                  rec == SetField(s.components[i].rec, field, value)
              IN  save_state([s EXCEPT !.components[i].rec = rec], f, d, now, out)
         ELSE Result(s, f, d, "False")

\* A save is attempted by the call (the clock is read, the outcome matters).
Saves(s, name) == s.kind # "nondict" /\ name \in Names(ComponentsOf(s))

\* What one run of export_state meets: open(export_path, 'w') raises
\* ("open_fail"), json.dump raises after the open ("write_fail"), or the copy
\* is written ("ok").
ExportOutcomes == {"ok", "open_fail", "write_fail"}

Exported(s, b, ret) == [state |-> s, backup |-> b, ret |-> ret]

\* export_state without its try/except: a failure leaves as an exception.
export_state_unguarded(s, b, out) ==
    CASE out = "open_fail"  -> Exported(s, b, "raise")
      [] out = "write_fail" -> Exported(s, PartialFile, "raise")
      [] out = "ok"         -> Exported(s, JsonFile(s), "True")

\* export_state: json.dump(self.state) into export_path; every Exception is
\* caught and answered with False. self.state is only read.
export_state(s, b, out) ==
    CASE out = "open_fail"  -> Exported(s, b, "False")
      [] out = "write_fail" -> Exported(s, PartialFile, "False")
      [] out = "ok"         -> Exported(s, JsonFile(s), "True")

----------------------------------------------------------------------------
(* Record of the last operation *)

NoLast ==
    [op |-> "init", name |-> "none", ret |-> "none",
     out |-> "none",       \* what the save of the call met, "none" without a save
     data |-> None,        \* set_component: the data argument
     field |-> "none",     \* update_component_field: the field argument
     present |-> FALSE,    \* the name had a record when the call began
     rep |-> FALSE,        \* remove_component: the call before was the same call
     deps |-> TRUE,        \* install: every dependency was installed at call time
     reinst |-> FALSE,     \* install: remove_stack ran on the existing stack
     step |-> "none",      \* install: the step at which it stopped
     deployed |-> FALSE,   \* install: docker stack deploy succeeded
     timeout |-> FALSE,    \* install: wait_for_stack timed out
     claimed |-> FALSE,    \* loop step: the component's own is_installed() said True
     ip |-> "none",        \* install of the prerequisites: the address given to
                           \* docker swarm init, "none" when it did not run
     calls |-> <<>>,       \* update: the methods it invoked, in order, each with
                           \* what it returned
     confirmed |-> FALSE,  \* reset: the answer to the first prompt was yes
     typed |-> ""]         \* reset: the line typed at the second prompt

\* A menu loop without its 'except Exception': an exception ends the process.
\* No call of get_valid_input is being looked at.
NoPrompt ==
    [lines |-> <<>>, validator |-> {}, default |-> "None", max_attempts |-> 0,
     result |-> [kind |-> "none", value |-> "None", read |-> 0]]

Ended_strict(ret) == IF ret \in {"killed", "exit", "raise"} THEN "dead" ELSE "running"

\* The menu loop after an option's handler: sys.exit and an interrupt end the
\* process; an exception ("raise") is caught by 'except Exception', printed,
\* and the loop shows the menu again, as it does after a normal return.
Ended(ret) == IF ret \in {"killed", "exit"} THEN "dead" ELSE "running"

----------------------------------------------------------------------------
(* The state store used on its own *)

StoreNames == {"prerequisites", "traefik", "portainer"}

DataKeys == {"network", "installed", "installed_at"}

DataValue(k) ==
    CASE k = "network"      -> DefaultNetwork
      [] k = "installed"    -> FALSE
      [] k = "installed_at" -> 0

\* The data mappings handed to set_component: every subset of DataKeys.
Datas == {[k \in K |-> DataValue(k)] : K \in SUBSET DataKeys}

IPs == {"10.0.0.1", "203.0.113.7"}

Fields == {"swarm_ip", "installed"}

FieldValues(field) == IF field = "installed" THEN {FALSE} ELSE IPs

\* A document left by an earlier run that installed the prerequisites.
PrereqData == [docker_installed |-> TRUE, swarm_initialized |-> TRUE, network |-> DefaultNetwork]

EarlierDoc ==
    [create_default_state(0) EXCEPT
        !.components = <<[name |-> Prereq, rec |-> Stamp(PrereqData, 0)]>>]

\* StateManager.__init__ of a new process.
Construct ==
    /\ clock < MaxClock
    /\ state' = load_state(file, clock)
    /\ clock' = clock + 1
    /\ pc' = "running"
    /\ pos' = 0
    /\ last' = [NoLast EXCEPT !.op = "construct", !.ret = "True"]
    /\ UNCHANGED <<file, dir, stacks, backup, prompt>>

Apply(r, l) ==
    /\ state' = r.state
    /\ file' = r.file
    /\ dir' = r.dir
    /\ pc' = Ended(r.ret)
    /\ last' = [l EXCEPT !.ret = r.ret]
    /\ UNCHANGED <<pos, backup, prompt>>

SetComponent(name, data, out) ==
    /\ pc = "running" /\ clock < MaxClock
    /\ SaveFeasible(dir, out)
    /\ Apply(set_component(state, file, dir, name, data, clock, out),
             [NoLast EXCEPT !.op = "set_component", !.name = name, !.data = data,
                            !.out = out,
                            !.present = name \in Names(ComponentsOf(state))])
    /\ clock' = clock + 1
    /\ UNCHANGED stacks

RemoveComponent(name, out) ==
    /\ pc = "running" /\ clock < MaxClock
    /\ SaveFeasible(dir, out)
    /\ Saves(state, name) \/ out = "ok"
    /\ Apply(remove_component(state, file, dir, name, clock, out),
             [NoLast EXCEPT !.op = "remove_component", !.name = name,
                            !.out = IF Saves(state, name) THEN out ELSE "none",
                            !.present = name \in Names(ComponentsOf(state)),
                            !.rep = last.op = "remove_component" /\ last.name = name])
    /\ clock' = clock + 1
    /\ UNCHANGED stacks

UpdateComponentField(name, field, value, out) ==
    /\ pc = "running" /\ clock < MaxClock
    /\ SaveFeasible(dir, out)
    /\ Saves(state, name) \/ out = "ok"
    /\ Apply(update_component_field(state, file, dir, name, field, value, clock, out),
             [NoLast EXCEPT !.op = "update_component_field", !.name = name,
                            !.field = field,
                            !.out = IF Saves(state, name) THEN out ELSE "none",
                            !.present = name \in Names(ComponentsOf(state))])
    /\ clock' = clock + 1
    /\ UNCHANGED stacks

ExportState(out) ==
    /\ pc = "running" /\ clock < MaxClock
    /\ LET r == export_state(state, backup, out)
       IN  /\ state' = r.state
           /\ backup' = r.backup
           /\ last' = [NoLast EXCEPT !.op = "export_state", !.out = out, !.ret = r.ret]
    /\ clock' = clock + 1
    /\ UNCHANGED <<file, dir, stacks, pc, pos, prompt>>

StoreNext ==
    \/ Construct
    \/ \E out \in ExportOutcomes : ExportState(out)
    \/ \E name \in StoreNames, data \in Datas, out \in SaveOutcomes \cup KillOutcomes :
          SetComponent(name, data, out)
    \/ \E name \in StoreNames, out \in SaveOutcomes \cup KillOutcomes :
          RemoveComponent(name, out)
    \/ \E name \in StoreNames, field \in Fields, out \in SaveOutcomes \cup KillOutcomes :
          \E value \in FieldValues(field) :
              UpdateComponentField(name, field, value, out)

----------------------------------------------------------------------------
(* Component installers *)

Secrets == {"Zx81", "Qm42"}

Email == "admin@example.com"

Domain(c) ==
    CASE c = "portainer" -> "portainer.localhost"
      [] c = "evolution" -> "evolution.localhost"
      [] c = "chatwoot"  -> "chatwoot.localhost"

ComposePath(c) ==
    CASE c = "traefik"   -> "/opt/docker-config/traefik/docker-compose.yml"
      [] c = "portainer" -> "/opt/docker-config/portainer/docker-compose.yml"
      [] c = "pgvector"  -> "/opt/docker-config/pgvector/docker-compose.yml"
      [] c = "evolution" -> "/opt/docker-config/evolution-api/docker-compose.yml"
      [] c = "chatwoot"  -> "/opt/docker-config/chatwoot/docker-compose.yml"

\* The dict each installer hands to save_to_state.
StackData(c, network, secret, pgpw) ==
    CASE c = "traefik" ->
            [network |-> network, email |-> Email, compose_path |-> ComposePath(c)]
      [] c = "portainer" ->
            [network |-> network, domain |-> Domain(c), url |-> <<"https://", Domain(c)>>,
             username |-> "admin", compose_path |-> ComposePath(c)]
      [] c = "pgvector" ->
            [network |-> network, password |-> secret, host |-> "pgvector",
             port |-> 5432, user |-> "postgres", version |-> "pgvector:pg16",
             compose_path |-> ComposePath(c)]
      [] c = "evolution" ->
            [network |-> network, domain |-> Domain(c), url |-> <<"https://", Domain(c)>>,
             api_key |-> secret, database |-> "evolution",
             database_uri |-> <<"postgresql://postgres:", pgpw, "@pgvector:5432/evolution">>,
             compose_path |-> ComposePath(c)]
      [] c = "chatwoot" ->
            [network |-> network, domain |-> Domain(c), url |-> <<"https://", Domain(c)>>,
             empresa |-> "Mi Empresa", email |-> Email, database |-> "chatwoot",
             secret_key_base |-> secret, compose_path |-> ComposePath(c)]

\* check_dependencies that looks at the first declared dependency only.
check_dependencies_first(s, c) ==
    LET first == IF Dependencies(c) = <<>> THEN <<>> ELSE <<Head(Dependencies(c))>>
        missing == SelectSeq(first, LAMBDA dep : ~is_installed(s, dep))
    IN  <<Len(missing) = 0, missing>>

\* check_dependencies that lists the missing names last declared first.
check_dependencies_reversed(s, c) ==
    LET found == SelectSeq(Dependencies(c), LAMBDA dep : ~is_installed(s, dep))
        missing == [i \in 1..Len(found) |-> found[Len(found) + 1 - i]]
    IN  <<Len(missing) = 0, missing>>

\* Component.check_dependencies: (satisfied, missing)
check_dependencies(s, c) ==
    LET missing == SelectSeq(Dependencies(c), LAMBDA dep : ~is_installed(s, dep))
    IN  <<Len(missing) = 0, missing>>

\* is_installed of a stack component: recorded in the state and docker stack
\* ps reports a task as Running.
stack_is_installed(s, c, running) == is_installed(s, c) /\ running

\* The steps of a stack install that can end it, in the order they run:
\*   "input"   get_valid_input / get_secure_password gives up: sys.exit(1)
\*   "hash"    htpasswd fails
\*   "compose" the compose file is missing
\*   "replace" _replace_variables fails
\*   "deploy"  docker stack deploy fails
FailSteps(c) ==
    CASE c = "traefik"   -> {"input", "compose", "replace", "deploy"}
      [] c = "portainer" -> {"input", "hash", "compose", "replace", "deploy"}
      [] c = "pgvector"  -> {"compose", "replace", "deploy"}
      [] c = "evolution" -> {"compose", "replace", "deploy"}
      [] c = "chatwoot"  -> {"input", "compose", "replace", "deploy"}

Outcome(s, f, d, st, ret, step, reinst, deployed, timeout, out) ==
    [state |-> s, file |-> f, dir |-> d, stacks |-> st, ret |-> ret, step |-> step,
     reinst |-> reinst, deployed |-> deployed, timeout |-> timeout, out |-> out]

\* The network a stack is configured with:
\* self.state_manager.get_network_name() or DEFAULTS['network']
network_of(s) ==
    IF get_network_name(s) # "None" THEN get_network_name(s) ELSE DefaultNetwork

\* The end of an install in which a wait_for_stack timeout fails the install:
\* it returns False and saves nothing.
wait_and_save_strict(c, s, f, d, st, now, in, re) ==
    IF in.wait
    THEN LET r == set_component(s, f, d, c,
                                StackData(c, network_of(s), in.secret,
                                          get_postgres_password(s)), now, in.out)
         IN  Outcome(r.state, r.file, r.dir, st \cup {c},
                     IF r.ret = "raise" THEN "raise" ELSE "True",
                     "none", re, TRUE, FALSE, in.out)
    ELSE Outcome(s, f, d, st \cup {c}, "False", "wait", re, TRUE, TRUE, "none")

\* The end of an install that also notes the installed component in the
\* record of pgvector.
wait_and_save_registering(c, s, f, d, st, now, in, re) ==
    LET s0 == IF "pgvector" \in Names(ComponentsOf(s))
              THEN [s EXCEPT !.components =
                       Put(s.components, "pgvector",
                           SetField(get_component(s, "pgvector"), "database", c))]
              ELSE s
        r == set_component(s0, f, d, c,
                           StackData(c, network_of(s), in.secret,
                                     get_postgres_password(s)), now, in.out)
    IN  Outcome(r.state, r.file, r.dir, st \cup {c},
                IF r.ret = "raise" THEN "raise" ELSE "True",
                "none", re, TRUE, ~in.wait, in.out)

\* The end of an install that answers with what save_to_state returned.
wait_and_save_checked(c, s, f, d, st, now, in, re) ==
    LET r == set_component(s, f, d, c,
                           StackData(c, network_of(s), in.secret,
                                     get_postgres_password(s)), now, in.out)
    IN  Outcome(r.state, r.file, r.dir, st \cup {c}, r.ret,
                "none", re, TRUE, ~in.wait, in.out)

\* The end of a stack install, once docker stack deploy has succeeded:
\* wait_for_stack (its result only prints a warning), save_to_state (its
\* result is not read), return True.
wait_and_save(c, s, f, d, st, now, in, re) ==
    LET r == set_component(s, f, d, c,
                           StackData(c, network_of(s), in.secret,
                                     get_postgres_password(s)), now, in.out)
    IN  Outcome(r.state, r.file, r.dir, st \cup {c},
                IF r.ret = "raise" THEN "raise" ELSE "True",
                "none", re, TRUE, ~in.wait, in.out)

\* Inputs of one run of a stack installer:
\*   running  docker stack ps reports Running (is_installed)
\*   confirm  the operator confirms the reinstall
\*   sure     pgvector: the operator confirms a second time
\*   rmOk     docker stack rm succeeds
\*   fail     the step that fails, "none" when every step succeeds
\*   wait     wait_for_stack sees the stack Running before the timeout
\*   secret   the value gen_secret returns
\*   out      what the save meets
install_stack(c, s, f, d, st, now, in) ==
    LET missing == check_dependencies(s, c)[2]
        installed == stack_is_installed(s, c, in.running)
        st1 == IF installed /\ in.rmOk THEN st \ {c} ELSE st
        stop(ret, step, stk, re) ==
            Outcome(s, f, d, stk, ret, step, re, FALSE, FALSE, "none")
    IN  IF missing # <<>> THEN stop("False", "deps", st, FALSE)
        ELSE IF installed /\ ~(in.confirm /\ (c = "pgvector" => in.sure))
        THEN stop("False", "declined", st, FALSE)
        ELSE IF c \in {"evolution", "chatwoot"} /\ get_postgres_password(s) = "None"
        THEN stop("False", "password", st1, installed)
        ELSE IF in.fail = "input" THEN stop("exit", "input", st1, installed)
        ELSE IF in.fail # "none" THEN stop("False", in.fail, st1, installed)
        ELSE wait_and_save(c, s, f, d, st1, now, in, installed)

\* Inputs of one run of Prerequisites.install:
\*   path   "declined", "docker" (_install_docker fails), "input" (no valid IP:
\*          sys.exit(1)), "swarm" (docker swarm init fails), "network"
\*          (_create_network fails) or "done"
\*   swarm  "kept" (active and not reinitialised), "fresh" (not active) or
\*          "reinit" (active, docker swarm leave --force, then init)
\*   ip     the advertise address
\*   out1   what the save of update_component_field meets
\*   out    what the save of save_to_state meets
install_prerequisites(s, f, d, st, now, in) ==
    LET st1 == IF in.swarm = "reinit" THEN {} ELSE st
        u == IF in.swarm = "kept" THEN Result(s, f, d, "True")
             ELSE update_component_field(s, f, d, Prereq, "swarm_ip", in.ip, now, in.out1)
        stop(ret, step, r, stk) ==
            Outcome(r.state, r.file, r.dir, stk, ret, step, FALSE, FALSE, FALSE, "none")
        r0 == Result(s, f, d, "True")
        \* the address docker swarm init succeeded with
        ip == IF in.swarm # "kept" THEN in.ip ELSE "none"
    IN  IF in.path \in {"declined", "docker"} THEN stop("False", in.path, r0, st)
        ELSE IF in.swarm # "kept" /\ in.path = "input" THEN stop("exit", "input", r0, st1)
        ELSE IF in.swarm # "kept" /\ in.path = "swarm" THEN stop("False", "swarm", r0, st1)
        ELSE IF u.ret = "raise" THEN stop("raise", "swarm", u, st1) @@ [ip |-> ip]
        ELSE IF in.path = "network" THEN stop("False", "network", u, st1) @@ [ip |-> ip]
        ELSE LET r == set_component(u.state, u.file, u.dir, Prereq, PrereqData, now, in.out)
             IN  Outcome(r.state, r.file, r.dir, st1,
                         IF r.ret = "raise" THEN "raise" ELSE "True",
                         "none", FALSE, FALSE, FALSE, in.out) @@ [ip |-> ip]

\* uninstall that takes the record out of the state although docker stack rm
\* failed.
uninstall_stack_eager(c, s, f, d, st, now, in) ==
    IF ~(in.confirm /\ (c = "pgvector" => in.sure))
    THEN Outcome(s, f, d, st, "False", "declined", FALSE, FALSE, FALSE, "none")
    ELSE LET r == remove_component(s, f, d, c, now, in.out)
         IN  Outcome(r.state, r.file, r.dir, IF in.rmOk THEN st \ {c} ELSE st,
                     IF r.ret = "raise" THEN "raise"
                     ELSE IF in.rmOk THEN "True" ELSE "False",
                     IF in.rmOk THEN "none" ELSE "remove", FALSE, FALSE, FALSE,
                     IF Saves(s, c) THEN in.out ELSE "none")

\* uninstall of a stack component. Inputs: confirm (for pgvector also sure:
\* the operator typed ELIMINAR TODO), rmOk (docker stack rm succeeds), out.
uninstall_stack(c, s, f, d, st, now, in) ==
    IF ~(in.confirm /\ (c = "pgvector" => in.sure)) \/ ~in.rmOk
    THEN Outcome(s, f, d, st, "False",
                 IF in.confirm /\ (c = "pgvector" => in.sure) THEN "remove" ELSE "declined",
                 FALSE, FALSE, FALSE, "none")
    ELSE LET r == remove_component(s, f, d, c, now, in.out)
         IN  Outcome(r.state, r.file, r.dir, st \ {c},
                     IF r.ret = "raise" THEN "raise" ELSE "True",
                     "none", FALSE, FALSE, FALSE,
                     IF Saves(s, c) THEN in.out ELSE "none")

\* Prerequisites.uninstall: docker swarm leave --force and the purge of Docker
\* take every stack with them.
uninstall_prerequisites(s, f, d, st, now, in) ==
    IF ~in.confirm
    THEN Outcome(s, f, d, st, "False", "declined", FALSE, FALSE, FALSE, "none")
    ELSE LET r == remove_component(s, f, d, Prereq, now, in.out)
         IN  Outcome(r.state, r.file, r.dir, {},
                     IF r.ret = "raise" THEN "raise" ELSE "True",
                     "none", FALSE, FALSE, FALSE,
                     IF Saves(s, Prereq) THEN in.out ELSE "none")

Call(method, ret) == [method |-> method, ret |-> ret]

\* An update that installs whatever uninstall returned.
update_regardless(un, ins) ==
    ins @@ [calls |-> <<Call("uninstall", un.ret), Call("install", ins.ret)>>]

\* Component.update: 'if self.uninstall(): return self.install()' and
\* 'return False' otherwise. un is what uninstall did, ins what install does
\* from there; an exception of either leaves update.
update(un, ins) ==
    IF un.ret = "True"
    THEN ins @@ [calls |-> <<Call("uninstall", un.ret), Call("install", ins.ret)>>]
    ELSE un @@ [calls |-> <<Call("uninstall", un.ret)>>]

----------------------------------------------------------------------------
(* The installer: install and uninstall of the six components *)

AnySecret == CHOOSE x \in Secrets : TRUE

AnyIP == CHOOSE x \in IPs : TRUE

\* The inputs of a stack install; an input the run never reads is held at one
\* value.
StackInputs ==
    [c \in StackNames |->
        {in \in [running : BOOLEAN, confirm : BOOLEAN, sure : BOOLEAN, rmOk : BOOLEAN,
                 fail : FailSteps(c) \cup {"none"}, wait : BOOLEAN,
                 secret : Secrets, out : SaveOutcomes] :
            /\ c # "pgvector" => in.sure
            /\ c \in {"traefik", "portainer"} => in.secret = AnySecret
            /\ in.fail # "none" => (in.wait /\ in.out = "ok" /\ in.secret = AnySecret)}]

PrereqInputs ==
    {in \in [path : {"declined", "docker", "input", "swarm", "network", "done"},
             swarm : {"kept", "fresh", "reinit"}, ip : IPs,
             out1 : SaveOutcomes, out : SaveOutcomes] :
        /\ in.path \in {"declined", "docker"} =>
              (in.swarm = "kept" /\ in.ip = AnyIP /\ in.out1 = "ok")
        /\ in.swarm = "kept" =>
              (in.path \notin {"input", "swarm"} /\ in.ip = AnyIP /\ in.out1 = "ok")
        /\ in.path \in {"input", "swarm"} => (in.ip = AnyIP /\ in.out1 = "ok")
        /\ in.path # "done" => in.out = "ok"}

UninstallInputs ==
    [c \in ComponentNames |->
        {in \in [confirm : BOOLEAN, sure : BOOLEAN, rmOk : BOOLEAN, out : SaveOutcomes] :
            /\ c # "pgvector" => in.sure
            /\ c = Prereq => in.rmOk
            /\ ~(in.confirm /\ in.sure /\ in.rmOk) => in.out = "ok"}]

\* An input that the run does not get to read is held at its first value: no
\* input is read when a dependency is missing, docker stack ps is asked only
\* when the state records the component, the answers about a reinstall are
\* read only when the component is installed, and nothing after them is read
\* when the operator declines.
StackDefault ==
    [running |-> FALSE, confirm |-> TRUE, sure |-> TRUE, rmOk |-> TRUE,
     fail |-> "none", wait |-> TRUE, secret |-> AnySecret, out |-> "ok"]

Reads(c, in, missing, recorded) ==
    /\ missing => in = StackDefault
    /\ ~recorded => ~in.running
    /\ ~in.running => (in.confirm /\ in.sure /\ in.rmOk)
    /\ (in.running /\ ~(in.confirm /\ in.sure)) =>
          in = [StackDefault EXCEPT !.running = TRUE, !.confirm = in.confirm,
                                    !.sure = in.sure]

ApplyOutcome(r, op, c) ==
    /\ state' = r.state
    /\ file' = r.file
    /\ dir' = r.dir
    /\ stacks' = r.stacks
    /\ pc' = Ended(r.ret)
    /\ clock' = clock + 1
    /\ last' = [NoLast EXCEPT !.op = op, !.name = c, !.ret = r.ret, !.out = r.out,
                              !.present = c \in Names(ComponentsOf(state)),
                              !.deps = check_dependencies(state, c)[1],
                              !.reinst = r.reinst, !.step = r.step,
                              !.deployed = r.deployed, !.timeout = r.timeout,
                              !.ip = IF "ip" \in DOMAIN r THEN r.ip ELSE "none",
                              !.calls = IF "calls" \in DOMAIN r THEN r.calls ELSE <<>>]
    /\ UNCHANGED <<pos, backup, prompt>>

\* setup_repository: clones the repository when install_dir does not exist.
SetupRepository(cloneOk) ==
    /\ pc = "running" /\ clock < MaxClock
    /\ dir' = (dir \/ cloneOk)
    /\ last' = [NoLast EXCEPT !.op = "setup_repository",
                              !.ret = IF dir \/ cloneOk THEN "True" ELSE "False"]
    /\ clock' = clock + 1
    /\ UNCHANGED <<state, file, stacks, pc, pos, backup, prompt>>

\* The ways an operator ends the menu loop: option 0, or Ctrl-C at a prompt.
QuitWays == {"option_0", "interrupt"}

\* run: option "0" calls sys.exit(0); KeyboardInterrupt is caught and calls
\* sys.exit(0).
Quit(how) ==
    /\ pc = "running" /\ clock < MaxClock
    /\ pc' = "dead"
    /\ last' = [NoLast EXCEPT !.op = how, !.ret = "None"]
    /\ clock' = clock + 1
    /\ UNCHANGED <<state, file, dir, stacks, pos, backup, prompt>>

InstallPrerequisites(in) ==
    /\ pc = "running" /\ clock < MaxClock
    /\ Saves(state, Prereq) /\ in.swarm # "kept" /\ in.path \in {"network", "done"}
          => SaveFeasible(dir, in.out1)
    /\ ~(Saves(state, Prereq) /\ in.swarm # "kept" /\ in.path \in {"network", "done"})
          => in.out1 = "ok"
    /\ LET r == install_prerequisites(state, file, dir, stacks, clock, in)
       IN  /\ (in.path = "done" /\ r.out # "none") =>
                 SaveFeasible(dir /\ in.out1 = "ok", in.out) /\ SaveFeasible(dir, in.out)
           /\ ApplyOutcome(r, "install", Prereq)

\* Every handler that installs a stack component returns early unless
\* setup_repository succeeded, so install_dir exists when install runs.
InstallStack(c, in) ==
    /\ pc = "running" /\ clock < MaxClock
    /\ dir
    /\ in.running => c \in stacks
    /\ SaveFeasible(dir, in.out)
    /\ Reads(c, in, ~check_dependencies(state, c)[1], is_installed(state, c))
    /\ ApplyOutcome(install_stack(c, state, file, dir, stacks, clock, in), "install", c)

\* handle_remove_stack offers the names of get_all_installed.
UninstallStack(c, in) ==
    /\ pc = "running" /\ clock < MaxClock
    /\ is_installed(state, c)
    /\ SaveFeasible(dir, in.out)
    /\ ApplyOutcome(uninstall_stack(c, state, file, dir, stacks, clock, in), "uninstall", c)

UninstallPrerequisites(in) ==
    /\ pc = "running" /\ clock < MaxClock
    /\ SaveFeasible(dir, in.out)
    /\ ApplyOutcome(uninstall_prerequisites(state, file, dir, stacks, clock, in),
                    "uninstall", Prereq)

Next ==
    \/ Construct
    \/ \E cloneOk \in BOOLEAN : SetupRepository(cloneOk)
    \/ \E in \in PrereqInputs : InstallPrerequisites(in)
    \/ \E c \in StackNames : \E in \in StackInputs[c] : InstallStack(c, in)
    \/ \E c \in StackNames : \E in \in UninstallInputs[c] : UninstallStack(c, in)
    \/ \E in \in UninstallInputs[Prereq] : UninstallPrerequisites(in)
    \/ \E how \in QuitWays : Quit(how)

PrereqDefault ==
    [path |-> "declined", swarm |-> "kept", ip |-> AnyIP, out1 |-> "ok", out |-> "ok"]

\* update of a stack component: the inputs of its uninstall, then, when that
\* returned True, the inputs of its install.
UpdateStack(c, uin, iin) ==
    /\ pc = "running" /\ clock < MaxClock
    /\ dir
    /\ SaveFeasible(dir, uin.out)
    /\ LET un == uninstall_stack(c, state, file, dir, stacks, clock, uin)
       IN  /\ un.ret # "True" => iin = StackDefault
           /\ un.ret = "True" =>
                 /\ iin.running => c \in un.stacks
                 /\ SaveFeasible(un.dir, iin.out)
                 /\ Reads(c, iin, ~check_dependencies(un.state, c)[1],
                          is_installed(un.state, c))
           /\ ApplyOutcome(update(un, install_stack(c, un.state, un.file, un.dir,
                                                    un.stacks, clock, iin)),
                           "update", c)

\* update of the prerequisites.
UpdatePrerequisites(uin, iin) ==
    /\ pc = "running" /\ clock < MaxClock
    /\ SaveFeasible(dir, uin.out)
    /\ LET un == uninstall_prerequisites(state, file, dir, stacks, clock, uin)
           ins == install_prerequisites(un.state, un.file, un.dir, un.stacks, clock, iin)
           saves1 == /\ Saves(un.state, Prereq) /\ iin.swarm # "kept"
                     /\ iin.path \in {"network", "done"}
       IN  /\ un.ret # "True" => iin = PrereqDefault
           /\ un.ret = "True" =>
                 /\ saves1 => SaveFeasible(un.dir, iin.out1)
                 /\ ~saves1 => iin.out1 = "ok"
                 /\ (iin.path = "done" /\ ins.out # "none") =>
                        SaveFeasible(un.dir, iin.out)
           /\ ApplyOutcome(update(un, ins), "update", Prereq)

UpdateNext ==
    \/ \E c \in StackNames : \E uin \in UninstallInputs[c] :
          \E iin \in StackInputs[c] : UpdateStack(c, uin, iin)
    \/ \E uin \in UninstallInputs[Prereq] :
          \E iin \in PrereqInputs : UpdatePrerequisites(uin, iin)

\* The document and the stacks that a quick start leaves when it ends after
\* its first k steps.
QuickStartDoc(k) ==
    [create_default_state(0) EXCEPT
        !.components =
            [i \in 1..k |->
                [name |-> Components[i],
                 rec |-> Stamp(IF i = 1 THEN PrereqData
                               ELSE StackData(Components[i], DefaultNetwork,
                                              AnySecret, AnySecret), 0)]]]

QuickStartStacks(k) == {Components[i] : i \in 2..k}

\* The process starts on a first run (no state file) or after an earlier run
\* whose quick start installed every component.
Init ==
    /\ \E k \in {0, Len(Components)} :
          /\ file = IF k = 0 THEN AbsentFile ELSE JsonFile(QuickStartDoc(k))
          /\ stacks = QuickStartStacks(k)
          /\ dir \in {d \in BOOLEAN : k > 0 => d}
    /\ state = load_state(file, 0)
    /\ clock = 1
    /\ pc = "running"
    /\ pos = 0
    /\ backup = AbsentFile
    /\ last = NoLast
    /\ prompt = NoPrompt

Spec == Init /\ [][Next]_vars

\* The components are updated, one update after another.
SpecUpdate == Init /\ [][UpdateNext]_vars

\* The process starts on a machine where the state file is absent, holds the
\* document of an earlier run (one that installed the prerequisites, or one
\* whose quick start ended after portainer), or holds text that does not parse.
InitStore ==
    /\ file \in {AbsentFile, JsonFile(EarlierDoc), JsonFile(QuickStartDoc(3)), TextFile}
    /\ dir \in {d \in BOOLEAN : file.kind # "absent" => d}
    /\ state = load_state(file, 0)
    /\ stacks = {}
    /\ clock = 1
    /\ pc = "running"
    /\ pos = 0
    /\ backup = AbsentFile
    /\ last = NoLast
    /\ prompt = NoPrompt

SpecStore == InitStore /\ [][StoreNext]_vars

\* The process starts on a state file that is not a valid state document.
InvalidFiles ==
    {TextFile, EmptyFile, PartialFile,
     JsonFile(NonDoc("nondict")), JsonFile(NonDoc("nocomp")), JsonFile(NonDoc("badcomp"))}

InitLoad ==
    /\ file \in InvalidFiles
    /\ dir = TRUE
    /\ state = load_state(file, 0)
    /\ stacks = {}
    /\ clock = 1
    /\ pc = "running"
    /\ pos = 0
    /\ backup = AbsentFile
    /\ last = [NoLast EXCEPT !.op = "construct", !.ret = "True"]
    /\ prompt = NoPrompt

SpecLoad == InitLoad /\ [][StoreNext]_vars

----------------------------------------------------------------------------
(* The bulk operations: handle_quick_start and handle_reset *)

\* handle_reset: components, the order in which reset uninstalls.
ResetOrderForward == Components

ResetOrder ==
    <<"chatwoot", "evolution", "pgvector", "portainer", "traefik", "prerequisites">>

\* Where a loop over the six components goes after its step at pos.
AfterStep(loop, ret, cont) ==
    IF ret \in {"exit", "killed"} THEN [pc |-> "dead", pos |-> 0]
    ELSE IF ret = "raise" \/ (ret = "False" /\ ~cont) THEN [pc |-> "running", pos |-> 0]
    ELSE IF loop = "quick" /\ pos = Len(Components) THEN [pc |-> "running", pos |-> 0]
    ELSE [pc |-> loop, pos |-> pos + 1]

\* One step of a loop took the outcome r on component c.
BulkApply(r, op, c, claimed, next) ==
    /\ state' = r.state
    /\ file' = r.file
    /\ dir' = r.dir
    /\ stacks' = r.stacks
    /\ pc' = next.pc
    /\ pos' = next.pos
    /\ last' = [NoLast EXCEPT !.op = op, !.name = c, !.ret = r.ret, !.out = r.out,
                              !.present = c \in Names(ComponentsOf(state)),
                              !.deps = check_dependencies(state, c)[1],
                              !.reinst = r.reinst, !.step = r.step,
                              !.deployed = r.deployed, !.timeout = r.timeout,
                              !.claimed = claimed]
    /\ clock' = clock + 1
    /\ UNCHANGED <<backup, prompt>>

\* The step of a loop that finds its component not installed (reset) or
\* installed and not to be reinstalled (quick start) and goes on.
Skipped == Outcome(state, file, dir, stacks, "none", "skip", FALSE, FALSE, FALSE, "none")

\* handle_quick_start up to its loop: the operator confirms, setup_repository
\* succeeds, the modules are created.
QuickStartBegin(confirm, cloneOk) ==
    /\ pc = "running" /\ clock < MaxClock
    /\ LET ok == confirm /\ (dir \/ cloneOk)
       IN  /\ dir' = (dir \/ (confirm /\ cloneOk))
           /\ pc' = IF ok THEN "quick" ELSE "running"
           /\ pos' = IF ok THEN 1 ELSE 0
           /\ last' = [NoLast EXCEPT !.op = "quick_start",
                                     !.ret = IF ok THEN "True" ELSE "False"]
    /\ clock' = clock + 1
    /\ UNCHANGED <<state, file, stacks, backup, prompt>>

\* The step of the quick start on the prerequisites. envOk: Docker, the swarm
\* and the network are there (Prerequisites.is_installed); reinstall: the
\* operator asks for the reinstall; cont: the operator goes on after a failure.
QuickStartPrerequisites(envOk, reinstall, cont, in) ==
    /\ pc = "quick" /\ Components[pos] = Prereq
    /\ envOk => in.swarm # "fresh"
    /\ IF envOk /\ ~reinstall
       THEN /\ in = CHOOSE x \in PrereqInputs : TRUE
            /\ cont
            /\ BulkApply(Skipped, "quick_step", Prereq, envOk,
                         AfterStep("quick", "none", TRUE))
       ELSE /\ envOk \/ reinstall
            /\ Saves(state, Prereq) /\ in.swarm # "kept" /\ in.path \in {"network", "done"}
                  => SaveFeasible(dir, in.out1)
            /\ ~(Saves(state, Prereq) /\ in.swarm # "kept"
                      /\ in.path \in {"network", "done"})
                  => in.out1 = "ok"
            /\ LET r == install_prerequisites(state, file, dir, stacks, clock, in)
               IN  /\ (in.path = "done" /\ r.out # "none") => SaveFeasible(dir, in.out)
                   /\ r.ret # "False" => cont
                   /\ BulkApply(r, "quick_step", Prereq, envOk,
                                AfterStep("quick", r.ret, cont))

\* The inputs of the installs that a quick start runs: the generated secret is
\* held at one value, the stack is seen Running in time, the save succeeds or
\* cannot open the file, and a failing install fails at its prompt or at the
\* deploy.
QuickInputs ==
    [c \in StackNames |->
        {in \in StackInputs[c] :
            in.secret = AnySecret /\ in.wait /\ in.out \in {"ok", "open_fail"}
              /\ in.fail \in {"none", "input", "deploy"}}]

\* The step of the quick start on a stack component.
QuickStartStack(reinstall, cont) ==
    /\ pc = "quick" /\ Components[pos] \in StackNames
    /\ \E in \in QuickInputs[Components[pos]] :
       LET c == Components[pos]
       IN  /\ in.running => c \in stacks
           /\ SaveFeasible(dir, in.out)
           /\ IF stack_is_installed(state, c, in.running) /\ ~reinstall
              THEN /\ in = [StackDefault EXCEPT !.running = TRUE]
                   /\ cont
                   /\ BulkApply(Skipped, "quick_step", c, TRUE,
                                AfterStep("quick", "none", TRUE))
              ELSE /\ stack_is_installed(state, c, in.running) \/ reinstall
                   /\ Reads(c, in, ~check_dependencies(state, c)[1], is_installed(state, c))
                   /\ LET r == install_stack(c, state, file, dir, stacks, clock, in)
                      IN  /\ r.ret # "False" => cont
                          /\ BulkApply(r, "quick_step", c,
                                       stack_is_installed(state, c, in.running),
                                       AfterStep("quick", r.ret, cont))

\* The lines an operator types at 'Escribe RESET COMPLETO para confirmar'.
ResetTexts == {"RESET COMPLETO", "  RESET COMPLETO ", "reset completo", "RESET", ""}

\* str.strip() on those lines.
Strip(text) ==
    CASE text = "  RESET COMPLETO " -> "RESET COMPLETO"
      [] text = " "                 -> ""
      [] text = " a "               -> "a"
      [] OTHER                      -> text

\* The guard of handle_reset with its second prompt left out.
reset_confirmed_once(confirm, typed) == confirm

\* The guard of handle_reset: confirm_action answers yes and the typed line,
\* stripped, is RESET COMPLETO.
reset_confirmed(confirm, typed) == confirm /\ Strip(typed) = "RESET COMPLETO"

\* handle_reset up to its loop. The second prompt is shown only after a yes to
\* the first.
ResetBegin(confirm, typed) ==
    /\ pc = "running" /\ clock < MaxClock
    /\ ~confirm => typed = ""
    /\ pc' = IF reset_confirmed(confirm, typed) THEN "reset" ELSE "running"
    /\ pos' = IF reset_confirmed(confirm, typed) THEN 1 ELSE 0
    /\ last' = [NoLast EXCEPT !.op = "reset_start",
                              !.confirmed = confirm, !.typed = typed,
                              !.ret = IF reset_confirmed(confirm, typed)
                                      THEN "True" ELSE "False"]
    /\ clock' = clock + 1
    /\ UNCHANGED <<state, file, dir, stacks, backup, prompt>>

\* The step of the reset on ResetOrder[pos]: component.uninstall() when
\* component.is_installed(), whatever uninstall returns. installed is what
\* is_installed answers: for the prerequisites the Docker environment, for a
\* stack the state record and docker stack ps.
ResetStep(installed) ==
    /\ pc = "reset" /\ pos \in DOMAIN ResetOrder
    /\ \E in \in UninstallInputs[ResetOrder[pos]] :
       LET c == ResetOrder[pos]
       IN  /\ c # Prereq => (installed => (c \in stacks /\ is_installed(state, c)))
           /\ SaveFeasible(dir, in.out)
           /\ IF ~installed
              THEN /\ in = [confirm |-> TRUE, sure |-> TRUE, rmOk |-> TRUE, out |-> "ok"]
                   /\ BulkApply(Skipped, "reset_step", c, FALSE,
                                [pc |-> "reset", pos |-> pos + 1])
              ELSE LET r == IF c = Prereq
                            THEN uninstall_prerequisites(state, file, dir, stacks, clock, in)
                            ELSE uninstall_stack(c, state, file, dir, stacks, clock, in)
                   IN  BulkApply(r, "reset_step", c, TRUE,
                                 IF r.ret = "raise" THEN [pc |-> "running", pos |-> 0]
                                 ELSE [pc |-> "reset", pos |-> pos + 1])

\* The end of handle_reset: os.remove(state_file) when it exists. The
\* StateManager object, and with it the in-memory document, stays.
ResetFinish ==
    /\ pc = "reset" /\ pos = Len(ResetOrder) + 1
    /\ file' = AbsentFile
    /\ pc' = "running"
    /\ pos' = 0
    /\ last' = [NoLast EXCEPT !.op = "reset", !.ret = "True"]
    /\ clock' = clock + 1
    /\ UNCHANGED <<state, dir, stacks, backup, prompt>>

BulkNext ==
    \/ \E confirm, cloneOk \in BOOLEAN : QuickStartBegin(confirm, cloneOk)
    \/ \E envOk, reinstall, cont \in BOOLEAN : \E in \in PrereqInputs :
          QuickStartPrerequisites(envOk, reinstall, cont, in)
    \/ \E reinstall, cont \in BOOLEAN : QuickStartStack(reinstall, cont)
    \/ \E confirm \in BOOLEAN, typed \in ResetTexts : ResetBegin(confirm, typed)
    \/ \E installed \in BOOLEAN : ResetStep(installed)
    \/ ResetFinish

SpecBulk == Init /\ [][BulkNext]_vars

----------------------------------------------------------------------------
(* get_valid_input (utils/validators.py) *)

MaxAttempts == 3

\* The lines an operator types at the prompt of get_valid_input, the values
\* they strip to, and the validators: a validator is the set of values it
\* accepts.
InputLines == {"", " ", "a", " a ", "b"}

InputValues == {"a", "b"}

\* default: None, the empty string, or a value.
InputDefaults == {"None", "", "d"}

\* 'if default:'
Truthy(default) == default \notin {"None", ""}

Returned(kind, value, read) == [kind |-> kind, value |-> value, read |-> read]

RECURSIVE attempts_unvalidated(_, _, _, _, _)
attempts_unvalidated(lines, validator, default, max_attempts, attempt) ==
    IF attempt > max_attempts
    THEN IF Truthy(default) THEN Returned("default", default, max_attempts)
         ELSE Returned("exit", "None", max_attempts)
    ELSE LET value == Strip(lines[attempt])
         IN  IF value = "" /\ Truthy(default) THEN Returned("default", default, attempt)
             ELSE IF value # "" THEN Returned("value", value, attempt)
             ELSE attempts_unvalidated(lines, validator, default, max_attempts, attempt + 1)

\* A get_valid_input that takes any entry that is not empty.
get_valid_input_unvalidated(lines, validator, default, max_attempts) ==
    attempts_unvalidated(lines, validator, default, max_attempts, 1)

\* The loop 'for attempt in range(max_attempts)' from its attempt-th pass, and
\* what follows it: the default when there is one, sys.exit(1) otherwise.
RECURSIVE attempts(_, _, _, _, _)
attempts(lines, validator, default, max_attempts, attempt) ==
    IF attempt > max_attempts
    THEN IF Truthy(default) THEN Returned("default", default, max_attempts)
         ELSE Returned("exit", "None", max_attempts)
    ELSE LET value == Strip(lines[attempt])
         IN  IF value = "" /\ Truthy(default) THEN Returned("default", default, attempt)
             ELSE IF value # "" /\ value \in validator
             THEN Returned("value", value, attempt)
             ELSE attempts(lines, validator, default, max_attempts, attempt + 1)

\* get_valid_input(prompt, validator, error_message, max_attempts, default)
\* with the operator typing lines[1], lines[2], ...: which return statement
\* ended it ("value", "default") or "exit" for sys.exit(1), the value
\* returned, and the number of lines read.
get_valid_input(lines, validator, default, max_attempts) ==
    attempts(lines, validator, default, max_attempts, 1)

\* The calls of get_valid_input, each with one line more at hand than it is
\* allowed to read.
InitInput ==
    /\ file = AbsentFile /\ dir = FALSE /\ stacks = {}
    /\ state = load_state(file, 0)
    /\ clock = 1
    /\ pc = "running"
    /\ pos = 0
    /\ backup = AbsentFile
    /\ last = NoLast
    /\ \E n \in 1..MaxAttempts :
          \E lines \in [1..(n + 1) -> InputLines], validator \in SUBSET InputValues,
             default \in InputDefaults :
              prompt = [NoPrompt EXCEPT !.lines = lines, !.validator = validator,
                                        !.default = default, !.max_attempts = n,
                                        !.result = Returned("pending", "None", 0)]

\* An installer asks for an input: sys.exit(1) ends the process.
GetValidInput ==
    /\ pc = "running" /\ prompt.result.kind = "pending"
    /\ LET r == get_valid_input(prompt.lines, prompt.validator, prompt.default,
                                prompt.max_attempts)
       IN  /\ prompt' = [prompt EXCEPT !.result = r]
           /\ pc' = Ended(IF r.kind = "exit" THEN "exit" ELSE "True")
           /\ last' = [NoLast EXCEPT !.op = "get_valid_input",
                                     !.ret = IF r.kind = "exit" THEN "exit" ELSE r.value]
    /\ clock' = clock + 1
    /\ UNCHANGED <<state, file, dir, stacks, pos, backup>>

InputNext == GetValidInput

SpecInput == InitInput /\ [][InputNext]_vars

----------------------------------------------------------------------------
(* Properties of the state store *)

StoreOps == {"set_component", "remove_component", "update_component_field"}

\* C5: after set_component(name, data), get_component(name) has exactly the
\* keys of data plus installed and installed_at, installed is true,
\* installed_at is the time of the call, and every other key has data's value.
C5_SetGetRoundTrip ==
    (last.op = "set_component" /\ pc = "running") =>
        LET rec == get_component(state, last.name)
        IN  /\ DOMAIN rec = DOMAIN last.data \cup {"installed", "installed_at"}
            /\ rec["installed"] = TRUE
            /\ rec["installed_at"] = clock - 1
            /\ \A k \in DOMAIN last.data \ {"installed", "installed_at"} :
                  rec[k] = last.data[k]

\* set_component was called with data that carries its own installed and
\* installed_at keys.
C5_Witness ==
    /\ last.op = "set_component" /\ pc = "running"
    /\ {"installed", "installed_at", "network"} \subseteq DOMAIN last.data

\* C6: remove_component leaves no record of the name, and called on a name
\* without a record (the second of two calls) it returns True and changes
\* neither the in-memory document nor the file.
C6_RemoveIdempotent ==
    [][last'.op = "remove_component" =>
          /\ last'.name \notin Names(ComponentsOf(state'))
          /\ last'.name \notin Names(ComponentsOf(state)) =>
                (last'.ret = "True" /\ state' = state /\ file' = file)]_vars

\* remove_component was called twice in a row on the same name.
C6_Witness ==
    /\ last.op = "remove_component" /\ last.rep
    /\ ~last.present /\ last.ret = "True"

\* C7: update_component_field on a name without a record returns False and
\* changes neither the in-memory document nor the file.
C7_UpdateAbsentNoop ==
    [][(last'.op = "update_component_field"
            /\ last'.name \notin Names(ComponentsOf(state))) =>
          (last'.ret = "False" /\ state' = state /\ file' = file)]_vars

\* update_component_field was called on a name without a record while other
\* names have one.
C7_Witness ==
    /\ last.op = "update_component_field" /\ ~last.present
    /\ last.ret = "False"
    /\ ComponentsOf(state) # <<>>

\* C8: a state file that is not a valid state document loads as a fresh
\* default document, and the set_component that follows succeeds and persists
\* the record when the file system accepts the write.
C8_InvalidFileLoadsDefault ==
    /\ last.op = "construct" =>
          (state.kind = "doc" /\ state.version = "1.0" /\ state.components = <<>>)
    /\ (last.op = "set_component" /\ last.out = "ok") =>
          (last.ret = "True" /\ file = JsonFile(state)
              /\ last.name \in Names(ComponentsOf(state)))

\* C9: a save that cannot be persisted is reported as the return value False.
C9_PersistFailureIsFalse ==
    (last.op \in StoreOps /\ last.out \in {"mkdir_raise", "open_fail", "write_fail"}) =>
        last.ret = "False"

\* C10: an operation that is interrupted while the state file holds a saved
\* document leaves the file as that save wrote it: never empty, never partly
\* written.
C10_InterruptKeepsFile ==
    [][(last'.ret = "killed" /\ file.kind = "json") => file' = file]_vars

\* C11: when set_component, remove_component of a recorded name or
\* update_component_field of a recorded name returns True, the state file
\* holds exactly the in-memory document.
C11_WriteThrough ==
    (last.op \in StoreOps /\ last.ret = "True"
        /\ (last.op # "set_component" => last.present)) =>
        file = JsonFile(state)

\* update_component_field of a recorded name returned True while the document
\* holds other records too.
C11_Witness ==
    /\ last.op = "update_component_field" /\ last.present /\ last.ret = "True"
    /\ Len(ComponentsOf(state)) >= 2
    /\ file = JsonFile(state)

\* C12: a change that a call made in memory and failed to save (the call
\* returned False, the file was left as it was) is not written by the next
\* successful mutation of another component: the file's record of the first
\* call's name stays what it was.
C12_FailedChangeNeverFlushed ==
    [][(/\ last.op \in StoreOps /\ last.ret = "False" /\ last.out = "open_fail"
        /\ file.kind = "json"
        /\ last'.op \in StoreOps /\ last'.name # last.name /\ last'.ret = "True") =>
          get_component(file'.val, last.name) = get_component(file.val, last.name)]_vars

\* C19: get_all_installed lists the installed names in the order their records
\* were inserted: set_component of a name without a record appends it,
\* set_component of an installed name leaves the list as it is,
\* remove_component takes the name out, and none of the three moves any other
\* name.
C19_InsertionOrder ==
    [][(last'.op \in {"set_component", "remove_component"} /\ last'.ret # "raise") =>
          LET before == get_all_installed(state)
              after == get_all_installed(state')
              name == last'.name
              Without(seq) == SelectSeq(seq, LAMBDA n : n # name)
              Listed(seq) == \E i \in DOMAIN seq : seq[i] = name
          IN  /\ Without(after) = Without(before)
              /\ last'.op = "remove_component" => after = Without(before)
              /\ (last'.op = "set_component" /\ ~last'.present) =>
                    after = Append(before, name)
              /\ (last'.op = "set_component" /\ Listed(before)) => after = before]_vars

\* Three components were installed and the middle one was removed: the other
\* two are listed in their original order.
C19_Witness ==
    /\ last.op = "remove_component" /\ last.name = "traefik" /\ last.present
    /\ get_all_installed(state) = <<"prerequisites", "portainer">>

\* C20: export_state leaves the in-memory document (and the state file) as
\* they were, answers False and never raises when the copy cannot be written,
\* and on success the exported file holds the whole in-memory document.
C20_ExportKeepsState ==
    [][last'.op = "export_state" =>
          /\ state' = state /\ file' = file
          /\ last'.ret = (IF last'.out = "ok" THEN "True" ELSE "False")
          /\ last'.ret = "True" => backup' = JsonFile(state)]_vars

\* export_state could not write the copy of a document that holds records.
C20_Witness ==
    /\ last.op = "export_state" /\ last.out = "write_fail" /\ last.ret = "False"
    /\ ComponentsOf(state) # <<>>

----------------------------------------------------------------------------
(* Properties of the installers *)

MissingDependency(s, c) ==
    \E i \in DOMAIN Dependencies(c) : ~is_installed(s, Dependencies(c)[i])

\* C1: an install called while a declared dependency is not installed returns
\* False and leaves the in-memory document and the file unchanged, so a
\* component is recorded only by an install whose dependencies were all
\* installed at call time.
C1_InstallNeedsDependencies ==
    [][(last'.op = "install" /\ MissingDependency(state, last'.name)) =>
          (last'.ret = "False" /\ state' = state /\ file' = file)]_vars

\* install was refused for a recorded component one of whose dependencies had
\* been uninstalled.
C1_Witness ==
    /\ last.op = "install" /\ last.ret = "False" /\ last.step = "deps"
    /\ MissingDependency(state, last.name)
    /\ is_installed(state, last.name)

\* C2: an install that does not succeed writes nothing to the state document:
\* the in-memory document and the file are after the call what they were
\* before it. Stated for the installs that return False; an install that
\* raises does so in the save itself, which is the subject of C9.
C2_FailedInstallWritesNothing ==
    [][(last'.op = "install" /\ last'.ret = "False") =>
          (state' = state /\ file' = file)]_vars

\* C3: an install that removed the existing stack for a confirmed reinstall
\* and then failed leaves the component not installed in the state store.
C3_FailedReinstallNotInstalled ==
    (last.op = "install" /\ last.reinst /\ last.name \notin stacks
        /\ last.ret = "False") =>
        ~is_installed(state, last.name)

\* C4: a stack install whose deploy succeeded and whose wait for the stack
\* timed out returns True and records the component as installed.
C4_TimeoutStillInstalls ==
    (last.op = "install" /\ last.name \in StackNames
        /\ last.deployed /\ last.timeout) =>
        (last.ret = "True" /\ is_installed(state, last.name))

\* A first install (no record before) was deployed, timed out waiting and
\* returned True.
C4_Witness ==
    /\ last.op = "install" /\ last.deployed /\ last.timeout
    /\ ~last.present /\ last.ret = "True"
    /\ is_installed(state, last.name)

\* C13: for every component and every state of the store, check_dependencies
\* returns (satisfied, missing) where missing holds exactly the declared
\* dependencies that are not installed, in the order of the declaration, and
\* satisfied says that missing is empty; with an empty store pgvector yields
\* (False, [prerequisites]) and with prerequisites installed traefik yields
\* (True, []).
C13_CheckDependencies ==
    /\ \A c \in ComponentNames :
          LET deps == Dependencies(c)
              r == check_dependencies(state, c)
              missing == r[2]
              At(n) == CHOOSE i \in DOMAIN deps : deps[i] = n
          IN  /\ {missing[i] : i \in DOMAIN missing} =
                    {deps[i] : i \in {j \in DOMAIN deps : ~is_installed(state, deps[j])}}
              /\ \A i, j \in DOMAIN missing : i < j => At(missing[i]) < At(missing[j])
              /\ r[1] = (missing = <<>>)
    /\ ComponentsOf(state) = <<>> =>
          check_dependencies(state, "pgvector") = <<FALSE, <<"prerequisites">>>>
    /\ is_installed(state, Prereq) =>
          check_dependencies(state, "traefik") = <<TRUE, <<>>>>

\* An install was refused because two or more of its dependencies were
\* missing.
C13_Witness ==
    /\ last.op = "install" /\ last.step = "deps" /\ last.ret = "False"
    /\ Len(check_dependencies(state, last.name)[2]) >= 2

\* C17: an uninstall, whatever it returns, leaves the record of every other
\* component in the state store as it was, the components that declare the
\* uninstalled one as a dependency included.
C17_UninstallKeepsOthers ==
    [][last'.op = "uninstall" =>
          \A n \in ComponentNames \ {last'.name} :
              get_component(state', n) = get_component(state, n)]_vars

\* pgvector was uninstalled while evolution, which depends on it, stays
\* recorded.
C17_Witness ==
    /\ last.op = "uninstall" /\ last.name = "pgvector" /\ last.ret = "True"
    /\ ~is_installed(state, "pgvector")
    /\ is_installed(state, "evolution")

\* C18: an install, reinstall or uninstall of a component creates, changes or
\* deletes no record but that component's own: in the in-memory document, and
\* in the state file when the file held the in-memory document before the
\* call and holds a document after it.
C18_OwnRecordOnly ==
    [][last'.op \in {"install", "uninstall"} =>
          \A n \in ComponentNames \ {last'.name} :
              /\ get_component(state', n) = get_component(state, n)
              /\ (file = JsonFile(state) /\ file'.kind = "json") =>
                    get_component(file'.val, n) = get_component(file.val, n)]_vars

\* A reinstall of the prerequisites wrote swarm_ip into their own record while
\* other components are recorded.
C18_Witness ==
    /\ last.op = "install" /\ last.name = Prereq /\ last.present
    /\ "swarm_ip" \in DOMAIN get_component(state, Prereq)
    /\ is_installed(state, "traefik")

\* C24: an install whose steps all succeeded and whose final save returned
\* False does not raise and returns True; the process goes on with the record
\* in memory, and the state file does not hold the in-memory document.
C24_UnsavedInstallSucceeds ==
    (last.op = "install" /\ last.step = "none"
        /\ last.out \in {"open_fail", "write_fail"}) =>
        /\ last.ret = "True" /\ pc = "running"
        /\ is_installed(state, last.name)
        /\ file # JsonFile(state)

\* A first install of a stack component returned True although its save
\* could not open the state file.
C24_Witness ==
    /\ last.op = "install" /\ last.name \in StackNames /\ ~last.present
    /\ last.out = "open_fail" /\ last.ret = "True"
    /\ is_installed(state, last.name)

\* C25: once the prerequisites are recorded with their network name,
\* get_network_name returns that name.
C25_NetworkNameRecovered ==
    (is_installed(state, Prereq) /\ "network" \in DOMAIN get_component(state, Prereq)) =>
        get_network_name(state) = get_component(state, Prereq)["network"]

\* C26: after an install of the prerequisites that initialised the swarm with
\* an advertise address and returned True, the prerequisites record holds that
\* address as swarm_ip.
C26_SwarmIpRecorded ==
    (last.op = "install" /\ last.name = Prereq /\ last.ret = "True"
        /\ last.ip # "none") =>
        LET rec == get_component(state, Prereq)
        IN  "swarm_ip" \in DOMAIN rec /\ rec["swarm_ip"] = last.ip

\* C28: the uninstall of a stack component that the operator did not confirm
\* (for pgvector: did not confirm with the text ELIMINAR TODO) or whose
\* docker stack rm failed returns False and leaves the in-memory document and
\* the file unchanged; the record is taken out only by an uninstall that was
\* confirmed and whose stack removal succeeded.
C28_UninstallNeedsConfirmAndRemoval ==
    [][(last'.op = "uninstall" /\ last'.name \in StackNames) =>
          /\ last'.step \in {"declined", "remove"} =>
                (last'.ret = "False" /\ state' = state /\ file' = file)
          /\ get_component(state', last'.name) # get_component(state, last'.name) =>
                (last'.step = "none" /\ last'.name \notin stacks')]_vars

\* The uninstall of a recorded stack component was confirmed, docker stack rm
\* failed, and the record is still there.
C28_Witness ==
    /\ last.op = "uninstall" /\ last.name \in StackNames
    /\ last.step = "remove" /\ last.ret = "False"
    /\ is_installed(state, last.name) /\ last.name \in stacks

C27_UpdateIsUninstallThenInstall ==
    last.op = "update" =>
        LET calls == last.calls
        IN  /\ Len(calls) \in {1, 2} /\ calls[1].method = "uninstall"
            /\ Len(calls) = 2 <=> calls[1].ret = "True"
            /\ Len(calls) = 2 => (calls[2].method = "install" /\ last.ret = calls[2].ret)
            /\ calls[1].ret = "False" => last.ret = "False"
            /\ (Len(calls) = 2 /\ calls[2].ret = "False") =>
                   (last.ret = "False" /\ ~is_installed(state, last.name))

\* A recorded stack was uninstalled by update, its install then failed: the
\* update returned False and the component is not recorded any more.
C27_Witness ==
    /\ last.op = "update" /\ last.name \in StackNames /\ last.present
    /\ last.calls = <<Call("uninstall", "True"), Call("install", "False")>>
    /\ last.ret = "False" /\ ~is_installed(state, last.name)

\* C23: get_valid_input ends after reading at most max_attempts lines,
\* whatever the operator types. It returns an entered value (stripped) that
\* the validator accepts, or the default (on an empty line, or after the last
\* attempt), or it ends the process when there is no default; it never
\* returns an entered value that the validator rejects.
C23_BoundedValidatedInput ==
    prompt.result.kind \notin {"none", "pending"} =>
        LET r == prompt.result
            entered == {Strip(prompt.lines[i]) : i \in 1..r.read}
        IN  /\ r.read <= prompt.max_attempts
            /\ r.kind \in {"value", "default", "exit"}
            /\ r.kind = "value" =>
                  (r.value \in entered /\ r.value \in prompt.validator /\ pc = "running")
            /\ r.kind = "default" =>
                  /\ r.value = prompt.default /\ Truthy(prompt.default)
                  /\ Strip(prompt.lines[r.read]) = "" \/ r.read = prompt.max_attempts
                  /\ pc = "running"
            /\ r.kind = "exit" =>
                  (~Truthy(prompt.default) /\ r.read = prompt.max_attempts /\ pc = "dead")
            /\ (r.kind # "exit" /\ r.value \in entered) => r.value \in prompt.validator

\* Three rejected entries, the last of them not empty, and the default was
\* returned.
C23_Witness ==
    /\ prompt.result.kind = "default" /\ prompt.result.read = MaxAttempts
    /\ prompt.max_attempts = MaxAttempts
    /\ \A i \in 1..MaxAttempts : Strip(prompt.lines[i]) \notin prompt.validator \cup {""}

----------------------------------------------------------------------------
(* Properties of the bulk operations *)

\* C14: the quick start installs prerequisites first and chatwoot last, every
\* component after all of its declared dependencies, and the reset goes
\* through the same list in exactly the reverse order.
C14_BulkOrder ==
    /\ Components[1] = "prerequisites"
    /\ Components[Len(Components)] = "chatwoot"
    /\ \A i \in DOMAIN Components : \A k \in DOMAIN Dependencies(Components[i]) :
          \E j \in 1..(i - 1) : Components[j] = Dependencies(Components[i])[k]
    /\ Len(ResetOrder) = Len(Components)
    /\ \A i \in DOMAIN ResetOrder : ResetOrder[i] = Components[Len(Components) + 1 - i]
    /\ (pc = "quick" /\ last.op = "quick_step") => last.name = Components[pos - 1]
    /\ (pc = "reset" /\ last.op = "reset_step") =>
          last.name = Components[Len(Components) + 2 - pos]

\* A reset went through all six components and uninstalled the prerequisites
\* last.
C14_Witness ==
    /\ pc = "reset" /\ pos = Len(ResetOrder) + 1
    /\ last.op = "reset_step" /\ last.name = Prereq /\ last.ret = "True"
    /\ ComponentsOf(state) = <<>>

\* C15: when the reset runs the uninstall of a component, no component that
\* declares it as a dependency is still deployed or still recorded as
\* installed.
C15_DependentsGoFirst ==
    [][(last'.op = "reset_step" /\ last'.step # "skip") =>
          \A d \in ComponentNames :
              (\E i \in DOMAIN Dependencies(d) : Dependencies(d)[i] = last'.name) =>
                  (d \notin stacks /\ ~is_installed(state, d))]_vars

\* C16: when a confirmed reset has completed, the state store reports no
\* component as installed.
C16_ResetClearsState ==
    last.op = "reset" =>
        /\ \A c \in ComponentNames : ~is_installed(state, c)
        /\ get_all_installed(state) = <<>>

\* C21: whenever a component's own is_installed() answers True to the quick
\* start or to the reset, the state store records the component as installed.
C21_StoreIsTheTruth ==
    [][(last'.op \in {"quick_step", "reset_step"} /\ last'.claimed) =>
          is_installed(state, last'.name)]_vars

\* C30: a quick-start step that is skipped because its component already
\* reports installed does not make the step after it refuse its install for
\* that component as a missing dependency.
C30_SkippedStepSatisfiesDependents ==
    [][(/\ pc = "quick" /\ last.op = "quick_step" /\ last.step = "skip"
        /\ last'.op = "quick_step" /\ last'.step = "deps") =>
          ~\E i \in DOMAIN Dependencies(last'.name) :
              Dependencies(last'.name)[i] = last.name]_vars

\* C29: unless the operator answers yes to the first prompt of the reset and
\* then types RESET COMPLETO (blanks around it aside), handle_reset returns
\* to the menu with the state document, the state file and the stacks as they
\* were; a component is uninstalled by the reset and the state file is
\* deleted by it only inside a reset that got both confirmations.
C29_ResetNeedsBothConfirmations ==
    [][/\ (last'.op = "reset_start"
            /\ ~(last'.confirmed /\ Strip(last'.typed) = "RESET COMPLETO")) =>
              /\ pc' = "running" /\ pos' = 0
              /\ state' = state /\ file' = file /\ stacks' = stacks
       /\ last'.op \in {"reset_step", "reset"} =>
              (pc = "reset" /\ last.op \in {"reset_start", "reset_step"}
                  /\ (last.op = "reset_start" =>
                         (last.confirmed /\ Strip(last.typed) = "RESET COMPLETO")))]_vars

\* The operator said yes to the first prompt and typed the text in lower case:
\* the reset went back to the menu with every record in place.
C29_Witness ==
    /\ last.op = "reset_start" /\ last.confirmed /\ last.typed = "reset completo"
    /\ pc = "running"
    /\ Len(ComponentsOf(state)) = Len(Components)
    /\ file = JsonFile(state)

====
